---- MODULE Spec2Model ----
(***************************************************************************)
(* Model of the clarity-js identity registry and snapshot traversal        *)
(* (insight/snapshot.ts) and of the incremental node classifier            *)
(* (layout/node.ts).                                                       *)
(***************************************************************************)
EXTENDS Integers, Sequences, FiniteSets, TLC

(***************************************************************************)
(* Bounds                                                                  *)
(***************************************************************************)
\* Largest value the identifier counter may reach in the explored runs.
MaxIndex == 9

(***************************************************************************)
(* The document walked by insight/snapshot.ts                              *)
(***************************************************************************)
Null == "null"

document == "document"

Nodes ==
    { "document", "doctype", "html", "style", "script", "comment", "div",
      "noscript", "styleText", "scriptText", "divText", "noscriptText" }

\* node.childNodes, in document order (firstChild / nextSibling chain)
childNodes(n) ==
    CASE n = "document" -> << "doctype", "html" >>
      [] n = "html"     -> << "style", "script", "comment", "div", "noscript" >>
      [] n = "style"    -> << "styleText" >>
      [] n = "script"   -> << "scriptText" >>
      [] n = "div"      -> << "divText" >>
      [] n = "noscript" -> << "noscriptText" >>
      [] OTHER          -> << >>

nodeType(n) ==
    CASE n = "document" -> "DOCUMENT_NODE"
      [] n = "doctype"  -> "DOCUMENT_TYPE_NODE"
      [] n = "comment"  -> "COMMENT_NODE"
      [] n \in { "styleText", "scriptText", "divText", "noscriptText" } -> "TEXT_NODE"
      [] OTHER          -> "ELEMENT_NODE"

tagName(n) ==
    CASE n = "html"     -> "HTML"
      [] n = "style"    -> "STYLE"
      [] n = "script"   -> "SCRIPT"
      [] n = "div"      -> "DIV"
      [] n = "noscript" -> "NOSCRIPT"
      [] OTHER          -> Null

\* node.parentNode, node.parentElement and node.previousSibling as tables
ParentTable ==
    [n \in Nodes |->
        IF \E p \in Nodes : \E i \in 1..Len(childNodes(p)) : childNodes(p)[i] = n
        THEN CHOOSE p \in Nodes : \E i \in 1..Len(childNodes(p)) : childNodes(p)[i] = n
        ELSE Null]

parentNode(n) == ParentTable[n]

parentElement(n) ==
    IF parentNode(n) # Null /\ nodeType(parentNode(n)) = "ELEMENT_NODE"
    THEN parentNode(n) ELSE Null

SiblingTable ==
    [n \in Nodes |->
        IF ParentTable[n] = Null THEN Null
        ELSE LET sibs == childNodes(ParentTable[n])
                 i == CHOOSE k \in 1..Len(sibs) : sibs[k] = n
             IN IF i = 1 THEN Null ELSE sibs[i - 1]]

previousSibling(n) == SiblingTable[n]

documentElement == "html"

TextTag == "*T"
DocumentTag == "*D"
OpaqueTags == { "NOSCRIPT", "SCRIPT", "STYLE" }

(***************************************************************************)
(* State of insight/snapshot.ts                                            *)
(***************************************************************************)
VARIABLES
    idMap,        \* node -> id, 0 when the node has no entry
    idMapNull,    \* TRUE while idMap is still null (before the first reset)
    index,        \* next identifier to hand out
    values,       \* records of the last snapshot
    last,         \* the last call made and what it returned
    owner,        \* history: id -> first node the id was handed to
    runPos,       \* history: progress through start;snapshot;stop;start;snapshot
    firstIds,     \* history: node -> id in the first snapshot of that run
    active        \* history: start() has run and stop() has not run since

snapVars ==
    << idMap, idMapNull, index, values, last, owner, runPos, firstIds, active >>



(***************************************************************************)
(* State of the layout collaborators (dom, event, mutation)                *)
(***************************************************************************)
VARIABLES
    focus,             \* the nodes that receive notifications in this run
    nodesMap,          \* dom registry: node -> [id, tag, base], id 0 if untracked
    domIndex,          \* next identifier of the dom registry
    bindings,          \* targets with bound event listeners
    observers,         \* roots with a connected mutation watcher
    iframeMap,         \* content documents known to the dom maps
    iframeContentMap,  \* frame elements known to the dom maps
    inv,               \* the last classifier invocation
    calls,             \* collaborator calls made by the last invocation
    child,             \* node returned by the last invocation
    raised,            \* whether the last invocation raised
    baseSeen           \* history: href of the last BASE the BASE case handled

layoutVars ==
    << focus, nodesMap, domIndex, bindings, observers, iframeMap,
       iframeContentMap, inv, calls, child, raised, baseSeen >>

vars == << snapVars, layoutVars >>

EmptyMap == [n \in Nodes |-> 0]

\* The registry as a value threaded through the helper functions.
Registry == [idMap |-> idMap, isNull |-> idMapNull, index |-> index,
             values |-> values, threw |-> FALSE]

(***************************************************************************)
(* Helper functions of insight/snapshot.ts                                 *)
(***************************************************************************)
\* reset() that also rewinds the counter
reset_rewind(st) == [st EXCEPT !.idMap = EmptyMap, !.isNull = FALSE, !.index = 1]

\* function reset(): idMap = new WeakMap()
reset(st) == [st EXCEPT !.idMap = EmptyMap, !.isNull = FALSE]

\* getId() without the idMap.has(node) test
getId_always(st, node) ==
    IF node = Null THEN [st |-> st, id |-> 0]
    ELSE IF st.isNull THEN [st |-> [st EXCEPT !.threw = TRUE], id |-> 0]
    ELSE [st |-> [st EXCEPT !.idMap[node] = st.index, !.index = st.index + 1],
          id |-> st.index]

\* function getId(node): result is [st |-> registry after, id |-> returned id].
\* Reading a null idMap raises a TypeError (threw).
getId(st, node) ==
    IF node = Null THEN [st |-> st, id |-> 0]
    ELSE IF st.isNull THEN [st |-> [st EXCEPT !.threw = TRUE], id |-> 0]
    ELSE IF st.idMap[node] # 0 THEN [st |-> st, id |-> st.idMap[node]]
    ELSE [st |-> [st EXCEPT !.idMap[node] = st.index, !.index = st.index + 1],
          id |-> st.index]

\* idMap.get(node): 0 stands for undefined
idMapGet(st, node) == IF node = Null THEN 0 ELSE st.idMap[node]

\* function add(node, parent, data)
add(st, node, parent, tag) ==
    IF node # Null /\ tag # Null
    THEN LET g == getId(st, node)
             parentId == IF parent # Null THEN idMapGet(g.st, parent) ELSE 0
             previous == IF previousSibling(node) # Null
                         THEN idMapGet(g.st, previousSibling(node)) ELSE 0
         IN IF g.st.threw THEN g.st
            ELSE [g.st EXCEPT !.values = Append(@,
                     [id |-> g.id, parent |-> parentId, previous |-> previous,
                      tag |-> tag, node |-> node])]
    ELSE st

\* traverse() tagging every text node, whatever its parent
traverseTag_textAlways(st, node, parent) ==
    CASE nodeType(node) = "DOCUMENT_TYPE_NODE" -> DocumentTag
      [] nodeType(node) = "TEXT_NODE" -> TextTag
      [] nodeType(node) = "ELEMENT_NODE" ->
            IF tagName(node) \notin OpaqueTags THEN tagName(node) ELSE Null
      [] OTHER -> Null

\* The tag the switch in traverse() computes for a node.
traverseTag(st, node, parent) ==
    CASE nodeType(node) = "DOCUMENT_TYPE_NODE" -> DocumentTag
      [] nodeType(node) = "TEXT_NODE" ->
            IF idMapGet(st, parent) # 0 THEN TextTag ELSE Null
      [] nodeType(node) = "ELEMENT_NODE" ->
            IF tagName(node) \notin OpaqueTags THEN tagName(node) ELSE Null
      [] OTHER -> Null

\* function traverse(root): the breadth-first loop over the queue
RECURSIVE traverseQueue(_, _)
traverseQueue(queue, st) ==
    IF queue = << >> \/ st.threw THEN st
    ELSE LET node == Head(queue)
             rest == Tail(queue) \o childNodes(node)
             parent == IF parentElement(node) # Null THEN parentElement(node)
                       ELSE parentNode(node)
         IN IF nodeType(node) = "TEXT_NODE" /\ st.isNull
            THEN [st EXCEPT !.threw = TRUE]
            ELSE traverseQueue(rest, add(st, node, parent, traverseTag(st, node, parent)))

\* a traversal that starts from an empty identity map
traverse_reset(root, st) == traverseQueue(<< root >>, reset(st))

traverse(root, st) == traverseQueue(<< root >>, st)

\* metadata() that only looks the node up
metadata_lookup(st, node) ==
    IF node = Null THEN [st |-> st, id |-> 0]
    ELSE IF st.isNull THEN [st |-> [st EXCEPT !.threw = TRUE], id |-> 0]
    ELSE [st |-> st, id |-> st.idMap[node]]

\* function metadata(node): result is [st |-> registry after, id |-> output.id]
metadata(st, node) ==
    IF node = Null THEN [st |-> st, id |-> 0]
    ELSE IF st.isNull THEN [st |-> [st EXCEPT !.threw = TRUE], id |-> 0]
    ELSE IF st.idMap[node] # 0 THEN [st |-> st, id |-> st.idMap[node]]
    ELSE getId(st, node)

(***************************************************************************)
(* History bookkeeping                                                     *)
(***************************************************************************)
\* ids handed out by a step: entries of the new map that differ from the old
Assigned(old, new) == { n \in Nodes : new[n] # 0 /\ new[n] # old[n] }

NextOwner(new) ==
    [i \in 1..(MaxIndex + 1) |->
        IF owner[i] # Null THEN owner[i]
        ELSE IF \E n \in Assigned(idMap, new) : new[n] = i
             THEN CHOOSE n \in Assigned(idMap, new) : new[n] = i
             ELSE Null]

RecordIds(vals) ==
    [n \in Nodes |->
        IF \E i \in 1..Len(vals) : vals[i].node = n
        THEN vals[CHOOSE i \in 1..Len(vals) : vals[i].node = n].id
        ELSE 0]

Commit(st) ==
    /\ st.index <= MaxIndex
    /\ idMap' = st.idMap
    /\ idMapNull' = st.isNull
    /\ index' = st.index
    /\ values' = st.values
    /\ owner' = NextOwner(st.idMap)

(***************************************************************************)
(* Operations of insight/snapshot.ts                                       *)
(***************************************************************************)
SnapInit ==
    /\ idMap = EmptyMap
    /\ idMapNull = TRUE
    /\ index = 1
    /\ values = << >>
    /\ last = [op |-> "init", node |-> Null, ret |-> 0, threw |-> FALSE]
    /\ owner = [i \in 1..(MaxIndex + 1) |-> Null]
    /\ runPos = 0
    /\ firstIds = EmptyMap
    /\ active = FALSE

\* export function start()
Start ==
    LET g == getId(reset(Registry), documentElement)
    IN /\ Commit(g.st)
       /\ last' = [op |-> "start", node |-> Null, ret |-> 0, threw |-> g.st.threw]
       /\ runPos' = IF runPos = 3 THEN 4 ELSE 1
       /\ firstIds' = IF runPos = 3 THEN firstIds ELSE EmptyMap
       /\ active' = TRUE

\* export function stop()
Stop ==
    LET st == reset(Registry)
    IN /\ Commit(st)
       /\ last' = [op |-> "stop", node |-> Null, ret |-> 0, threw |-> FALSE]
       /\ runPos' = IF runPos = 2 THEN 3 ELSE 0
       /\ firstIds' = IF runPos = 2 THEN firstIds ELSE EmptyMap
       /\ active' = FALSE

\* export function snapshot()
Snapshot ==
    LET st == traverse(document, [Registry EXCEPT !.values = << >>])
    IN /\ Commit(st)
       /\ last' = [op |-> "snapshot", node |-> Null, ret |-> 0, threw |-> st.threw]
       /\ runPos' = IF st.threw THEN 0
                    ELSE IF runPos = 1 THEN 2 ELSE IF runPos = 4 THEN 5 ELSE 0
       /\ firstIds' = IF st.threw THEN EmptyMap
                      ELSE IF runPos = 1 THEN RecordIds(st.values)
                      ELSE IF runPos = 4 THEN firstIds ELSE EmptyMap
       /\ UNCHANGED active

\* export function metadata(node)
Metadata(node) ==
    LET m == metadata(Registry, node)
    IN /\ Commit(m.st)
       /\ last' = [op |-> "metadata", node |-> node, ret |-> m.id, threw |-> m.st.threw]
       /\ runPos' = 0
       /\ firstIds' = EmptyMap
       /\ UNCHANGED active

\* Nodes that interaction handlers ask metadata for in the explored runs
MetadataTargets == { Null, "document", "html", "script" }

MetadataCall == \E node \in MetadataTargets : Metadata(node)


(***************************************************************************)
(* The live tree seen by the classifier of layout/node.ts                  *)
(***************************************************************************)
Elements ==
    { "html", "head", "base", "meta", "style", "script", "noscript", "div",
      "span", "iframe", "iframe2", "video", "audio", "source", "link", "input",
      "frameHtml", "frameHead" }

TextNodes == { "styleText", "scriptText", "noscriptText", "divText" }

Documents == { "document", "frameDoc", "frameDoc2" }

Fragments == { "shadow", "polyShadow", "fragment" }

Frames == { "iframe", "iframe2" }

LayoutNodes ==
    Elements \cup TextNodes \cup Documents \cup Fragments
        \cup { "doctype", "frameDoctype", "comment" }

\* iframe.contentDocument and iframe.contentWindow of each frame element
contentDocument(f) == IF f = "iframe" THEN "frameDoc" ELSE "frameDoc2"
contentWindow(f) == IF f = "iframe" THEN "frameWin" ELSE "frameWin2"
frameOf(d) == IF d = "frameDoc" THEN "iframe" ELSE "iframe2"

layoutType(n) ==
    CASE n \in Elements  -> "ELEMENT_NODE"
      [] n \in TextNodes -> "TEXT_NODE"
      [] n \in Documents -> "DOCUMENT_NODE"
      [] n \in Fragments -> "DOCUMENT_FRAGMENT_NODE"
      [] n \in { "doctype", "frameDoctype" } -> "DOCUMENT_TYPE_NODE"
      [] OTHER -> "COMMENT_NODE"

layoutTag(n) ==
    CASE n \in { "html", "frameHtml" } -> "HTML"
      [] n \in { "head", "frameHead" } -> "HEAD"
      [] n \in Frames -> "IFRAME"
      [] n = "base" -> "BASE"
      [] n = "meta" -> "META"
      [] n = "style" -> "STYLE"
      [] n = "script" -> "SCRIPT"
      [] n = "noscript" -> "NOSCRIPT"
      [] n = "div" -> "DIV"
      [] n = "span" -> "SPAN"
      [] n = "video" -> "VIDEO"
      [] n = "audio" -> "AUDIO"
      [] n = "source" -> "SOURCE"
      [] n = "link" -> "LINK"
      [] n = "input" -> "INPUT"
      [] OTHER -> Null

\* node.parentNode while the node is attached
layoutParent(n) ==
    CASE n \in { "doctype", "html" } -> "document"
      [] n \in { "head", "noscript", "div", "span", "iframe", "iframe2",
                 "video", "audio", "link", "input", "comment" } -> "html"
      [] n = "source" -> "video"
      [] n \in { "base", "meta", "style", "script" } -> "head"
      [] n = "styleText" -> "style"
      [] n = "scriptText" -> "script"
      [] n = "noscriptText" -> "noscript"
      [] n = "divText" -> "div"
      [] n \in { "frameDoctype", "frameHtml" } -> "frameDoc"
      [] n = "frameHead" -> "frameHtml"
      [] OTHER -> Null

\* node.ownerDocument !== document
insideFrame(n) == n \in { "frameDoctype", "frameHtml", "frameHead" } \cup Documents

\* shadowRoot.host, and whether the root's constructor is native code
host(n) == CASE n = "shadow" -> "div" [] n = "polyShadow" -> "span" [] OTHER -> Null
nativeShadow(n) == n = "shadow"
\* element.shadowRoot
shadowRoot(n) == CASE n = "div" -> "shadow" [] n = "span" -> "polyShadow" [] OTHER -> Null

Sources == { "Discover", "ChildListAdd", "ChildListRemove", "Attributes" }

IGNORE_ATTRIBUTES ==
    { "title", "alt", "onload", "onfocus", "onerror",
      "data-drupal-form-submit-last", "aria-label" }

Absent == "<absent>"

AttrNames ==
    { "property", "name", "content", "src", "href", "type", "rel", "title",
      "base", "sameorigin", "value", "style" }

NoAttributes == [a \in AttrNames |-> Absent]

ShadowDomTag == "*S"
PolyfillShadowDomTag == "*P"
IFramePrefix == "iframe:"
JsonLD == "application/ld+json"

\* `${l.protocol}//${l.host}${l.pathname}` of the page, of a frame, and of the
\* anchor element resolved from a BASE href
PageLocation == "https://page/"
FrameLocation == "https://frame/"
ResolvedHref(href) ==
    CASE href = Absent -> "https://page/undefined"
      [] href = "/path/" -> "https://page/path/"
      [] OTHER -> href

(***************************************************************************)
(* The layout collaborators (dom, event, mutation)                         *)
(***************************************************************************)
NoRecord == [id |-> 0, tag |-> Null, base |-> Absent]

\* The layout state as a value threaded through the classifier.
Layout ==
    [nodesMap |-> nodesMap, domIndex |-> domIndex, bindings |-> bindings,
     observers |-> observers, iframeMap |-> iframeMap,
     iframeContentMap |-> iframeContentMap,
     calls |-> << >>, child |-> Null, raised |-> FALSE]

Call(s, fn, node, arg) ==
    [s EXCEPT !.calls = Append(@, [fn |-> fn, node |-> node, arg |-> arg])]

\* dom.has(node)
domHas(s, node) == node # Null /\ node \in LayoutNodes /\ s.nodesMap[node].id # 0

\* dom.add / dom.update
domWrite(s, call, node, parent, data, source) ==
    LET logged == Call(s, call, node,
                       [tag |-> data.tag, attributes |-> data.attributes,
                        value |-> data.value, parent |-> parent, source |-> source])
    IN IF call = "add"
       THEN [logged EXCEPT
                !.nodesMap[node] = [id |-> s.domIndex, tag |-> data.tag,
                                    base |-> data.attributes["base"]],
                !.domIndex = s.domIndex + 1]
       ELSE [logged EXCEPT
                !.nodesMap[node] = [id |-> s.nodesMap[node].id, tag |-> data.tag,
                                    base |-> data.attributes["base"]]]

\* dom.iframe(node): the frame element whose content document is node
domIframe(s, node) == IF node \in s.iframeMap THEN frameOf(node) ELSE Null

\* dom.sameorigin(iframe): true when the content document can be read; the
\* frame and its document are then entered into the dom maps
domSameorigin(s, iframe, frameState) ==
    IF frameState # "none"
    THEN [s EXCEPT !.iframeMap = @ \cup { contentDocument(iframe) },
                   !.iframeContentMap = @ \cup { iframe }]
    ELSE s

\* dom.removeIFrame(frame, doc)
domRemoveIFrame(s, frame, doc) ==
    Call([s EXCEPT !.iframeMap = @ \ { doc }, !.iframeContentMap = @ \ { frame }],
         "dom.removeIFrame", frame, Null)

\* event.has / event.unbind
eventHas(s, target) == target \in s.bindings
eventUnbind(s, target) ==
    Call([s EXCEPT !.bindings = @ \ { target }], "event.unbind", target, Null)

\* mutation.observe / mutation.disconnect / mutation.monitor
mutationObserve(s, root) ==
    Call([s EXCEPT !.observers = @ \cup { root }], "mutation.observe", root, Null)
\* (the logged argument tells whether a watcher was connected)
mutationDisconnect(s, doc) ==
    Call([s EXCEPT !.observers = @ \ { doc }], "mutation.disconnect", doc,
         IF doc \in s.observers THEN "connected" ELSE Null)
mutationMonitor(s, frame) ==
    Call([s EXCEPT !.bindings = @ \cup { frame }], "mutation.monitor", frame, Null)

\* interaction.observe(root): listeners on the root, and scroll listeners on
\* the window of a document root
interactionObserve(s, root) ==
    LET win == IF root = "document" THEN { "window" }
               ELSE IF root \in Documents /\ domIframe(s, root) # Null
                    THEN { contentWindow(frameOf(root)) } ELSE { }
    IN Call([s EXCEPT !.bindings = @ \cup { root } \cup win],
            "interaction.observe", root, Null)

(***************************************************************************)
(* layout/node.ts                                                          *)
(***************************************************************************)
\* What one invocation reads from the live tree and the environment.
DefaultEnv ==
    [attached |-> TRUE,         \* the input node still has its parent link
     parentAttached |-> TRUE,   \* so does its parent
     attributes |-> NoAttributes,
     frame |-> "none",          \* iframe content: "none", "loading", "ready"
     jsonOk |-> TRUE,           \* JSON.parse of the script text succeeds
     textContent |-> Absent,    \* style.textContent
     dataset |-> 0,             \* number of data-* attributes of the style
     styleId |-> "",            \* style.id
     sheet |-> "none",          \* rule text, "none", or the error name raised
     electron |-> FALSE,
     sheetOwned |-> FALSE,      \* a document stylesheet is owned by the link
     svg |-> FALSE,             \* element.namespaceURI is the SVG namespace
     liveValue |-> "",          \* input.value
     nodeValue |-> "text",
     shadowOpen |-> FALSE]      \* element.shadowRoot is accessible

SvgPrefix == "svg:"

\* String.prototype.trim on the style texts used here
Trim(str) ==
    CASE str = Absent -> ""
      [] str = "  " -> ""
      [] str = " a{} " -> "a{}"
      [] OTHER -> str

\* String.prototype.startsWith("data:") on the src values used here
StartsWithData(str) == str \in { "data:video/mp4;base64,AAAA", "data:" }

\* function getAttributes(element)
getAttributes(env, tag) ==
    [a \in AttrNames |->
        IF a \in IGNORE_ATTRIBUTES THEN Absent
        ELSE IF a = "value" /\ tag = "INPUT" /\ env.attributes[a] = Absent
                /\ env.liveValue # ""
             THEN env.liveValue
             ELSE env.attributes[a]]

\* getCssRules() that swallows every error
getCssRules_swallow(s, sheet) ==
    CASE sheet = "none" -> [s |-> s, value |-> ""]
      [] sheet \in { "SecurityError", "TypeError" } ->
            [s |-> Call(s, "internal.log", Null, sheet), value |-> ""]
      [] sheet = "null" ->
            [s |-> Call(s, "internal.log", Null, Null), value |-> ""]
      [] OTHER -> [s |-> s, value |-> sheet]

\* export function getCssRules(sheet): [s |-> state after, value |-> result]
getCssRules(s, sheet) ==
    CASE sheet = "none" -> [s |-> s, value |-> ""]
      [] sheet = "SecurityError" ->
            [s |-> Call(s, "internal.log", Null, "SecurityError"), value |-> ""]
      [] sheet = "null" ->
            [s |-> Call(s, "internal.log", Null, Null), value |-> ""]
      [] sheet = "TypeError" ->
            [s |-> [Call(s, "internal.log", Null, "TypeError") EXCEPT !.raised = TRUE],
             value |-> ""]
      [] OTHER -> [s |-> s, value |-> sheet]

\* getStyleValue() that only falls back to the rule list for empty text
getStyleValue_textFirst(s, env) ==
    LET value == Trim(env.textContent)
    IN IF value = "" THEN getCssRules(s, env.sheet) ELSE [s |-> s, value |-> value]

\* function getStyleValue(style)
getStyleValue(s, env) ==
    LET value == Trim(env.textContent)
    IN IF value = "" \/ env.dataset > 0 \/ env.styleId # ""
       THEN getCssRules(s, env.sheet)
       ELSE [s |-> s, value |-> value]

\* observe() without the already-observed test
observe_again(s, root) == interactionObserve(mutationObserve(s, root), root)

\* function observe(root)
observe(s, root) ==
    IF domHas(s, root) \/ eventHas(s, root) THEN s
    ELSE interactionObserve(mutationObserve(s, root), root)

\* removeObserver() that forgets the content window and the watcher
removeObserver_partial(s, root) ==
    LET s1 == eventUnbind(s, root)
    IN IF root \in s1.iframeContentMap
       THEN domRemoveIFrame(eventUnbind(s1, contentDocument(root)),
                            root, contentDocument(root))
       ELSE s1

\* export function removeObserver(root)
removeObserver(s, root) ==
    LET s1 == eventUnbind(s, root)
        known == root \in s1.iframeContentMap
        s2 == IF known THEN eventUnbind(s1, contentWindow(root)) ELSE s1
    IN IF known
       THEN domRemoveIFrame(
                mutationDisconnect(eventUnbind(s2, contentDocument(root)),
                                   contentDocument(root)),
                root, contentDocument(root))
       ELSE s2

Data(tag, attributes, value) == [tag |-> tag, attributes |-> attributes, value |-> value]

\* case "META" handled like an ordinary element
caseMeta_mirrored(s, call, node, parent, attributes, source) ==
    domWrite(s, call, node, parent, Data("META", attributes, Absent), source)

\* case "META"
caseMeta(s, call, node, parent, attributes, source) ==
    LET key == IF attributes["property"] # Absent THEN "property"
               ELSE IF attributes["name"] # Absent THEN "name" ELSE Null
    IN IF key # Null /\ attributes["content"] # Absent
       THEN CASE attributes[key] = "og:title" ->
                    Call(s, "dimension.log", node,
                         [dim |-> "MetaTitle", value |-> attributes["content"]])
              [] attributes[key] = "og:type" ->
                    Call(s, "dimension.log", node,
                         [dim |-> "MetaType", value |-> attributes["content"]])
              [] attributes[key] = "generator" ->
                    Call(s, "dimension.log", node,
                         [dim |-> "Generator", value |-> attributes["content"]])
              [] OTHER -> s
       ELSE s

\* the SCRIPT case without the try block around the parse
caseScript_uncaught(s, node, attributes, env) ==
    IF attributes["type"] = JsonLD
    THEN LET s1 == Call(s, "JSON.parse", node, Null)
         IN IF env.jsonOk THEN Call(s1, "schema.ld", node, Null)
            ELSE [s1 EXCEPT !.raised = TRUE]
    ELSE s

\* case "SCRIPT": the parse is attempted for linked data only, and an error
\* it raises is caught
caseScript(s, node, attributes, env) ==
    IF attributes["type"] = JsonLD
    THEN LET s1 == Call(s, "JSON.parse", node, Null)
         IN IF env.jsonOk THEN Call(s1, "schema.ld", node, Null) ELSE s1
    ELSE s

\* the media case without the test on src
caseMedia_keepSrc(s, call, node, parent, tag, attributes, source) ==
    domWrite(s, call, node, parent, Data(tag, attributes, Absent), source)

\* case "VIDEO": case "AUDIO": case "SOURCE"
caseMedia(s, call, node, parent, tag, attributes, source) ==
    LET attrs == IF attributes["src"] # Absent /\ StartsWithData(attributes["src"])
                 THEN [attributes EXCEPT !["src"] = ""] ELSE attributes
    IN domWrite(s, call, node, parent, Data(tag, attrs, Absent), source)

\* case "IFRAME"
caseIframe(s, call, node, parent, attributes, source, env) ==
    LET same == env.frame # "none"
        s1 == IF same THEN mutationMonitor(domSameorigin(s, node, env.frame), node) ELSE s
        attrs == IF same THEN [attributes EXCEPT !["sameorigin"] = "true"] ELSE attributes
        s2 == IF same /\ env.frame = "ready"
              THEN [s1 EXCEPT !.child = contentDocument(node)] ELSE s1
        s3 == IF source = "ChildListRemove" THEN removeObserver(s2, node) ELSE s2
    IN domWrite(s3, call, node, parent, Data("IFRAME", attrs, Absent), source)

\* case Node.ELEMENT_NODE: the switch on the tag
caseElement(s, call, node, env, source) ==
    LET attributes == getAttributes(env, layoutTag(node))
        pNode == IF env.attached THEN layoutParent(node) ELSE Null
        parent == pNode
        tag == IF env.svg THEN SvgPrefix \o layoutTag(node) ELSE layoutTag(node)
    IN CASE tag = "HTML" ->
              LET p == IF insideFrame(node) /\ parent # Null
                       THEN domIframe(s, parent) ELSE parent
                  t == IF insideFrame(node) THEN IFramePrefix \o tag ELSE tag
              IN domWrite(s, call, node, p, Data(t, attributes, Absent), source)
         [] tag = "SCRIPT" -> caseScript(s, node, attributes, env)
         [] tag = "NOSCRIPT" ->
              domWrite(s, call, node, parent, Data(tag, NoAttributes, ""), source)
         [] tag = "META" -> caseMeta(s, call, node, parent, attributes, source)
         [] tag = "HEAD" ->
              LET l == IF insideFrame(node) THEN FrameLocation ELSE PageLocation
              IN domWrite(s, call, node, parent,
                          Data(tag, [attributes EXCEPT !["base"] = l], Absent), source)
         [] tag = "BASE" ->
              LET head == IF env.attached /\ layoutParent(node) \in Elements
                          THEN layoutParent(node) ELSE Null
              IN IF domHas(s, head)
                 THEN [s EXCEPT !.nodesMap[head].base = ResolvedHref(attributes["href"])]
                 ELSE s
         [] tag = "STYLE" ->
              LET v == getStyleValue(s, env)
              IN IF v.s.raised THEN v.s
                 ELSE domWrite(v.s, call, node, parent,
                               Data(tag, attributes, v.value), source)
         [] tag = "IFRAME" -> caseIframe(s, call, node, parent, attributes, source, env)
         [] tag = "LINK" ->
              IF env.electron /\ attributes["rel"] = "stylesheet"
              THEN IF env.sheetOwned
                   THEN LET v == getCssRules(s, env.sheet)
                        IN IF v.s.raised THEN v.s
                           ELSE domWrite(v.s, call, node, parent,
                                         Data("STYLE", attributes, v.value), source)
                   ELSE s
              ELSE domWrite(s, call, node, parent, Data(tag, attributes, Absent), source)
         [] tag \in { "VIDEO", "AUDIO", "SOURCE" } ->
              caseMedia(s, call, node, parent, tag, attributes, source)
         [] OTHER ->
              LET s1 == IF env.shadowOpen /\ shadowRoot(node) # Null
                        THEN [s EXCEPT !.child = shadowRoot(node)] ELSE s
              IN domWrite(s1, call, node, parent, Data(tag, attributes, Absent), source)

\* the fragment case observing every root that has a host
caseFragment_observeAll(s, call, node, source) ==
    IF host(node) # Null
    THEN LET s1 == observe(Call(s, "dom.parse", node, Null), node)
             s2 == IF nativeShadow(node)
                   THEN domWrite(s1, call, node, host(node),
                                 Data(ShadowDomTag, [NoAttributes EXCEPT !["style"] = ""],
                                      Absent), source)
                   ELSE domWrite(s1, call, node, host(node),
                                 Data(PolyfillShadowDomTag, NoAttributes, Absent), source)
         IN Call(s2, "checkDocumentStyles", node, Null)
    ELSE s

\* case Node.DOCUMENT_FRAGMENT_NODE
caseFragment(s, call, node, source) ==
    IF host(node) # Null
    THEN LET s1 == Call(s, "dom.parse", node, Null)
             s2 == IF nativeShadow(node)
                   THEN domWrite(observe(s1, node), call, node, host(node),
                                 Data(ShadowDomTag, [NoAttributes EXCEPT !["style"] = ""],
                                      Absent), source)
                   ELSE domWrite(s1, call, node, host(node),
                                 Data(PolyfillShadowDomTag, NoAttributes, Absent), source)
         IN Call(s2, "checkDocumentStyles", node, Null)
    ELSE s

\* a classifier that takes every node for a new one
callOf_add(s, node) == "add"

\* let add = dom.has(node) === false; call = add ? "add" : "update"
callOf(s, node) == IF domHas(s, node) THEN "update" ELSE "add"

\* The body of the classifier after the remove-before-discover test
classify(s, inputNode, source, env) ==
    LET reroute == /\ source # "Discover"
                   /\ layoutType(inputNode) = "TEXT_NODE"
                   /\ env.attached
                   /\ layoutParent(inputNode) \in Elements
                   /\ layoutTag(layoutParent(inputNode)) = "STYLE"
        node == IF reroute THEN layoutParent(inputNode) ELSE inputNode
        e == IF reroute THEN [env EXCEPT !.attached = env.parentAttached] ELSE env
        call == callOf(s, node)
        pNode == IF e.attached THEN layoutParent(node) ELSE Null
        parent == IF pNode \in Elements THEN pNode ELSE Null
        type == layoutType(node)
    IN CASE type = "DOCUMENT_TYPE_NODE" ->
              LET p == IF insideFrame(node) /\ pNode # Null
                       THEN domIframe(s, pNode) ELSE parent
                  t == IF insideFrame(node) THEN IFramePrefix \o DocumentTag
                       ELSE DocumentTag
              IN domWrite(s, call, node, p,
                          Data(t, [NoAttributes EXCEPT !["name"] = "html"], Absent), source)
         [] type = "DOCUMENT_NODE" ->
              LET s1 == IF node = "document" THEN Call(s, "dom.parse", node, Null) ELSE s
              IN observe(Call(s1, "checkDocumentStyles", node, Null), node)
         [] type = "DOCUMENT_FRAGMENT_NODE" -> caseFragment(s, call, node, source)
         [] type = "TEXT_NODE" ->
              LET p == IF parent # Null THEN parent ELSE pNode
              IN IF call = "update"
                    \/ (p # Null /\ domHas(s, p)
                        /\ layoutTag(p) \notin { "STYLE", "NOSCRIPT" })
                 THEN domWrite(s, call, node, p,
                               Data(TextTag, NoAttributes, e.nodeValue), source)
                 ELSE s
         [] type = "ELEMENT_NODE" -> caseElement(s, call, node, e, source)
         [] OTHER -> s

\* The classifier without the remove-before-discover test
processNode_noGuard(s, inputNode, source, env) == classify(s, inputNode, source, env)

\* export default function (inputNode, source, timestamp)
processNode(s, inputNode, source, env) ==
    IF source = "ChildListRemove" /\ ~domHas(s, inputNode) THEN s
    ELSE classify(s, inputNode, source, env)

(***************************************************************************)
(* Notifications delivered to the classifier                               *)
(***************************************************************************)
\* Groups of nodes that receive notifications together in one run
Scenarios ==
    { { "iframe", "iframe2" },
      { "iframe", "frameHtml", "frameDoctype", "frameHead" },
      { "document", "div", "shadow", "fragment" },
      { "span", "polyShadow" },
      { "html", "head", "base", "doctype" },
      { "meta", "script", "scriptText" },
      { "style", "styleText" },
      { "div", "divText", "noscript", "noscriptText", "comment" },
      { "video", "link", "input" },
      { "video", "audio", "source" } }

\* No classifier result is held by the caller
NoInvocation == [node |-> Null, source |-> "Discover", had |-> FALSE, env |-> DefaultEnv]

Idle == inv = NoInvocation

LayoutIdle ==
    /\ nodesMap = [n \in LayoutNodes |-> NoRecord]
    /\ domIndex = 1
    /\ bindings = { }
    /\ observers = { }
    /\ iframeMap = { }
    /\ iframeContentMap = { }
    /\ inv = NoInvocation
    /\ calls = << >>
    /\ child = Null
    /\ raised = FALSE
    /\ baseSeen = Null

\* One invocation of the classifier
Invoke(node, source, env) ==
    LET s == processNode(Layout, node, source, env)
    IN /\ nodesMap' = s.nodesMap
       /\ domIndex' = s.domIndex
       /\ bindings' = s.bindings
       /\ observers' = s.observers
       /\ iframeMap' = s.iframeMap
       /\ iframeContentMap' = s.iframeContentMap
       /\ calls' = s.calls
       /\ child' = s.child
       /\ raised' = s.raised
       /\ inv' = [node |-> node, source |-> source, had |-> domHas(Layout, node),
                  env |-> env]
       /\ baseSeen' = IF /\ layoutTag(node) = "BASE"
                         /\ ~(source = "ChildListRemove" /\ ~domHas(Layout, node))
                         /\ env.attached
                      THEN env.attributes["href"] ELSE baseSeen
       /\ UNCHANGED << focus, snapVars >>

MetaAttributes ==
    { [NoAttributes EXCEPT !["property"] = p, !["name"] = n, !["content"] = c] :
        p \in { Absent, "og:title", "og:type", "other" },
        n \in { Absent, "generator", "og:title" },
        c \in { Absent, "X" } }

\* What an invocation on a node may read from the live tree: the inputs of
\* the node's kind vary, the others stay at their defaults.
Envs(node) ==
    CASE node \in Documents \cup Fragments \cup { "head", "frameHead", "comment" } ->
            { DefaultEnv }
      [] node \in TextNodes \cup { "doctype", "frameDoctype" } ->
            { [DefaultEnv EXCEPT !.attached = attached] : attached \in BOOLEAN }
      [] node = "meta" ->
            { [DefaultEnv EXCEPT !.attributes = attributes] :
                attributes \in MetaAttributes }
      [] node = "script" ->
            { [DefaultEnv EXCEPT !.attributes["type"] = type, !.jsonOk = jsonOk] :
                type \in { Absent, JsonLD, "text/javascript" }, jsonOk \in BOOLEAN }
      [] node = "base" ->
            { [DefaultEnv EXCEPT !.attributes["href"] = href, !.attached = attached] :
                href \in { Absent, "/path/", "https://base/" }, attached \in BOOLEAN }
      [] node = "style" ->
            { [DefaultEnv EXCEPT !.textContent = textContent, !.dataset = dataset,
                                 !.styleId = styleId, !.sheet = sheet] :
                textContent \in { Absent, "  ", " a{} " }, dataset \in { 0, 1 },
                styleId \in { "", "theme" },
                sheet \in { "none", "b{}", "SecurityError", "TypeError" } }
      [] node \in Frames ->
            { [DefaultEnv EXCEPT !.frame = frame, !.attached = attached] :
                frame \in { "none", "loading", "ready" }, attached \in BOOLEAN }
      [] node = "link" ->
            { [DefaultEnv EXCEPT !.attributes["rel"] = rel, !.electron = electron,
                                 !.sheetOwned = sheetOwned, !.sheet = sheet] :
                rel \in { Absent, "stylesheet" }, electron \in BOOLEAN,
                sheetOwned \in BOOLEAN, sheet \in { "b{}", "SecurityError", "TypeError" } }
      [] node \in { "video", "audio", "source" } ->
            { [DefaultEnv EXCEPT !.attributes["src"] = src, !.attributes["title"] = title] :
                src \in { Absent, "data:video/mp4;base64,AAAA", "movie.mp4", "DATA:x" },
                title \in { Absent, "t" } }
      [] node = "input" ->
            { [DefaultEnv EXCEPT !.attributes["value"] = value, !.liveValue = liveValue] :
                value \in { Absent, "v" }, liveValue \in { "", "typed" } }
      [] node \in { "div", "span" } ->
            { [DefaultEnv EXCEPT !.attached = attached, !.shadowOpen = shadowOpen,
                                 !.svg = svg] :
                attached \in BOOLEAN, shadowOpen \in BOOLEAN,
                svg \in IF node = "span" THEN BOOLEAN ELSE { FALSE } }
      [] OTHER ->
            { [DefaultEnv EXCEPT !.attached = attached] : attached \in BOOLEAN }

\* A notification (discovery or mutation) for one of the nodes of the run
Notify ==
    /\ Idle
    /\ \E node \in focus : \E source \in Sources : \E env \in Envs(node) :
          Invoke(node, source, env)

\* The caller traverses the node the classifier returned, with the same source
FollowUp ==
    /\ child # Null
    /\ Invoke(child, inv.source, DefaultEnv)

\* The caller is done with the returned node and takes the next notification
Proceed ==
    /\ ~Idle
    /\ inv' = NoInvocation
    /\ calls' = << >>
    /\ child' = Null
    /\ raised' = FALSE
    /\ UNCHANGED << focus, nodesMap, domIndex, bindings, observers, iframeMap,
                    iframeContentMap, baseSeen, snapVars >>

LayoutInit ==
    /\ focus \in Scenarios
    /\ LayoutIdle
    /\ SnapInit

LayoutNext == Notify \/ FollowUp \/ Proceed

SpecLayout == LayoutInit /\ [][LayoutNext]_vars

(***************************************************************************)
(* Specification of insight/snapshot.ts                                    *)
(***************************************************************************)
Init == SnapInit /\ focus = { } /\ LayoutIdle

Next ==
    \/ Start /\ UNCHANGED layoutVars
    \/ Stop /\ UNCHANGED layoutVars
    \/ Snapshot /\ UNCHANGED layoutVars
    \/ MetadataCall /\ UNCHANGED layoutVars

Spec == Init /\ [][Next]_vars

(***************************************************************************)
(* Properties of the identity registry and the snapshot traversal          *)
(***************************************************************************)
HasRecord(vals, n) == \E i \in 1..Len(vals) : vals[i].node = n

\* C1: within a session an assigned identifier never changes: no call other
\* than start()/stop() alters an existing node -> id entry, metadata(node)
\* returns the entry, and every snapshot record of the node carries it.
C1_IdStable ==
    [][ last'.op \notin { "start", "stop" } =>
          /\ \A n \in Nodes : idMap[n] # 0 => idMap'[n] = idMap[n]
          /\ (last'.op = "metadata" /\ last'.node # Null /\ idMap[last'.node] # 0)
                => last'.ret = idMap[last'.node]
          /\ last'.op = "snapshot" =>
                \A i \in 1..Len(values') :
                    idMap[values'[i].node] # 0 => values'[i].id = idMap[values'[i].node]
      ]_vars

\* metadata(html) after a snapshot reports the id the snapshot record carries
C1_Witness ==
    /\ last.op = "metadata" /\ last.node = "html" /\ last.ret = idMap["html"]
    /\ \E i \in 1..Len(values) : values[i].node = "html" /\ values[i].id = last.ret
    /\ idMap["div"] # 0

\* C2: an identifier once handed to a node is never handed to another node,
\* also across stop()/start(); identifiers are >= 1 and every newly allocated
\* identifier is greater than all identifiers allocated before.
C2_NoAliasing ==
    /\ [](\A n \in Nodes : idMap[n] # 0 => (idMap[n] >= 1 /\ owner[idMap[n]] = n))
    /\ [](\A i \in 1..Len(values) : values[i].id >= 1 /\ owner[values[i].id] = values[i].node)
    /\ [][ \A n \in Assigned(idMap, idMap') :
              \A i \in 1..(MaxIndex + 1) : owner[i] # Null => idMap'[n] > i ]_vars

\* a node registered again in a later session under a new identifier
C2_Witness ==
    \E n \in Nodes : \E i \in 1..MaxIndex :
        /\ owner[i] = n /\ idMap[n] # 0 /\ idMap[n] # i
        /\ \E m \in Nodes : m # n /\ owner[idMap[n] - 1] = m

\* C3: start(); snapshot(); stop(); start(); snapshot() over the unchanged
\* document gives every node the same id in both snapshots.
C3_ResetDeterminism == runPos = 5 => RecordIds(values) = firstIds

\* C5: after start(), metadata(node) of an unregistered non-null node does not
\* fail, allocates a fresh identifier >= 1 and returns it, and returns the
\* stored identifier for a registered node; metadata(null) returns 0 and
\* allocates nothing.
C5_LazyRegistration ==
    [][ last'.op = "metadata" =>
          IF last'.node = Null
          THEN last'.ret = 0 /\ ~last'.threw /\ idMap' = idMap /\ index' = index
          ELSE ~idMapNull =>
                 /\ ~last'.threw
                 /\ last'.ret >= 1
                 /\ idMap'[last'.node] = last'.ret
                 /\ idMap[last'.node] # 0 => (last'.ret = idMap[last'.node] /\ index' = index)
                 /\ idMap[last'.node] = 0 =>
                       /\ \A m \in Nodes : idMap[m] # last'.ret
                       /\ \A i \in 1..(MaxIndex + 1) : owner[i] # Null => i < last'.ret
                       /\ index' > last'.ret
      ]_vars

\* metadata(script) registered the never-traversed SCRIPT element
C5_Witness ==
    /\ last.op = "metadata" /\ last.node = "script" /\ ~last.threw
    /\ last.ret >= 2 /\ idMap["script"] = last.ret /\ index = last.ret + 1

\* Nodes the traversal classifies with no tag, given the registry after it
Untagged(map) ==
    { n \in Nodes :
        \/ nodeType(n) \in { "DOCUMENT_NODE", "COMMENT_NODE" }
        \/ nodeType(n) = "ELEMENT_NODE" /\ tagName(n) \in OpaqueTags
        \/ nodeType(n) = "TEXT_NODE" /\ map[parentNode(n)] = 0 }

\* C6: no snapshot record has an empty or absent tag, and a node classified
\* with no tag gets no record and no identifier from the traversal.
C6_NoEmptyTag ==
    /\ [](\A i \in 1..Len(values) : values[i].tag \notin { Null, "" })
    /\ [][ last'.op = "snapshot" =>
              \A n \in Untagged(idMap') :
                  idMap'[n] = idMap[n] /\ ~HasRecord(values', n) ]_vars

\* a snapshot that wrote records and left the untagged nodes unregistered
C6_Witness ==
    /\ last.op = "snapshot" /\ ~last.threw /\ Len(values) >= 4
    /\ idMap["style"] = 0 /\ idMap["comment"] = 0 /\ idMap["styleText"] = 0
    /\ idMap["document"] = 0 /\ idMap["divText"] # 0

\* C7: every text record's parent is an element with a record in the same
\* snapshot and is not SCRIPT, STYLE or NOSCRIPT.
C7_TextParentMirrored ==
    \A i \in 1..Len(values) :
        values[i].tag = TextTag =>
            /\ HasRecord(values, parentNode(values[i].node))
            /\ tagName(parentNode(values[i].node)) \notin OpaqueTags

(***************************************************************************)
(* Properties of the node classifier                                       *)
(***************************************************************************)
\* Number of calls of fn on node made by the last invocation
CallCount(log, fn, node) ==
    Cardinality({ i \in 1..Len(log) : log[i].fn = fn /\ log[i].node = node })

Writes(log) == { i \in 1..Len(log) : log[i].fn \in { "add", "update" } }

\* C4: a ChildListRemove notification for an untracked node of any kind
\* raises nothing, makes no collaborator call (no add, no update, no
\* observer attached or detached), leaves the registry and the observation
\* state unchanged and returns no follow-up node.
C4_RemoveBeforeDiscover ==
    [][ (inv'.node # Null /\ inv'.source = "ChildListRemove" /\ ~inv'.had) =>
            /\ calls' = << >>
            /\ child' = Null
            /\ ~raised'
            /\ UNCHANGED << nodesMap, domIndex, bindings, observers, iframeMap,
                            iframeContentMap >>
      ]_vars

\* an untracked iframe is removed while the other iframe is tracked and observed
C4_Witness ==
    /\ inv.node = "iframe2" /\ inv.source = "ChildListRemove" /\ ~inv.had
    /\ inv.env.frame = "ready"
    /\ nodesMap["iframe"].id # 0 /\ "frameDoc" \in observers
    /\ nodesMap["iframe2"].id = 0 /\ calls = << >>

FrameClean(f) ==
    /\ f \notin bindings
    /\ contentWindow(f) \notin bindings
    /\ contentDocument(f) \notin bindings
    /\ contentDocument(f) \notin observers
    /\ f \notin iframeContentMap
    /\ contentDocument(f) \notin iframeMap

\* C8: after a ChildListRemove notification for a tracked IFRAME no listener
\* is bound on the frame, its content window or its content document, the
\* document's watcher is disconnected and neither is left in the iframe maps;
\* watchers only exist for frames the maps know, and an iframe entering the
\* registry gets an identifier no other node holds.
C8_IframeTeardown ==
    /\ []((inv.node \in Frames /\ inv.source = "ChildListRemove" /\ inv.had)
            => FrameClean(inv.node))
    /\ [](\A f \in Frames :
            (contentDocument(f) \in bindings \cup observers
                \/ contentWindow(f) \in bindings)
            => (f \in iframeContentMap /\ nodesMap[f].id # 0))
    /\ [][ \A f \in Frames :
              (nodesMap[f].id = 0 /\ nodesMap'[f].id # 0) =>
                  /\ nodesMap'[f].id >= domIndex
                  /\ \A n \in LayoutNodes : nodesMap[n].id # nodesMap'[f].id ]_vars

\* the observed first iframe is torn down, then the second one is inserted and
\* observed, then it is torn down too
C8_Witness ==
    /\ inv.node = "iframe2" /\ inv.source = "ChildListRemove" /\ inv.had
    /\ \E i \in 1..Len(calls) :
          /\ calls[i].fn = "mutation.disconnect"
          /\ calls[i].node = "frameDoc2"
          /\ calls[i].arg = "connected"
    /\ nodesMap["iframe"].id # 0 /\ nodesMap["iframe2"].id > nodesMap["iframe"].id
    /\ FrameClean("iframe") /\ FrameClean("iframe2")

\* C9: mutation.observe and interaction.observe are invoked for a document
\* or shadow root at most once per invocation and only when the root is
\* neither tracked, nor has bound listeners, nor is already being watched.
C9_ObserveOnce ==
    [][ \A r \in Documents \cup Fragments :
          LET m == CallCount(calls', "mutation.observe", r)
              i == CallCount(calls', "interaction.observe", r)
          IN /\ m <= 1
             /\ i <= 1
             /\ (m + i > 0) =>
                   (r \notin observers /\ r \notin bindings /\ nodesMap[r].id = 0)
      ]_vars

\* the document is notified again while observed: nothing is observed anew
C9_Witness ==
    /\ inv.node = "document" /\ inv.source = "Attributes"
    /\ "document" \in observers /\ "document" \in bindings
    /\ CallCount(calls, "mutation.observe", "document") = 0
    /\ CallCount(calls, "checkDocumentStyles", "document") = 1
    /\ "shadow" \in observers /\ nodesMap["shadow"].id # 0

\* The key the META case looks at is recognised and comes with content
MetaRecognised(attributes) ==
    LET key == IF attributes["property"] # Absent THEN "property"
               ELSE IF attributes["name"] # Absent THEN "name" ELSE Null
    IN /\ key # Null
       /\ attributes["content"] # Absent
       /\ attributes[key] \in { "og:title", "og:type", "generator" }

MetaLogs(log, content) ==
    { i \in 1..Len(log) : log[i].fn = "dimension.log" /\ log[i].arg.value = content }

\* C10 as stated: for every source, classifying a META element writes no
\* record, and a recognised key with content gives exactly one dimension log
\* call carrying the content.
C10_MetaEverySource ==
    inv.node = "meta" =>
        /\ Writes(calls) = { }
        /\ nodesMap["meta"].id = 0
        /\ MetaRecognised(inv.env.attributes) =>
              /\ CallCount(calls, "dimension.log", "meta") = 1
              /\ Cardinality(MetaLogs(calls, inv.env.attributes["content"])) = 1

\* C10 amended: for every source, classifying a META element writes no
\* record; for every source other than ChildListRemove a recognised key with
\* content gives exactly one dimension log call carrying the content, and a
\* ChildListRemove notification makes no dimension log call.
C10_MetaNeverMirrored ==
    inv.node = "meta" =>
        /\ Writes(calls) = { }
        /\ nodesMap["meta"].id = 0
        /\ (inv.source # "ChildListRemove" /\ MetaRecognised(inv.env.attributes)) =>
              /\ CallCount(calls, "dimension.log", "meta") = 1
              /\ Cardinality(MetaLogs(calls, inv.env.attributes["content"])) = 1
        /\ inv.source = "ChildListRemove" =>
              CallCount(calls, "dimension.log", "meta") = 0

\* <meta property="og:title" content="X"> is discovered and logged once
C10_Witness ==
    /\ inv.node = "meta" /\ inv.source = "Discover"
    /\ inv.env.attributes["property"] = "og:title"
    /\ inv.env.attributes["content"] = "X"
    /\ Len(calls) = 1 /\ calls[1].fn = "dimension.log" /\ calls[1].arg.value = "X"
    /\ nodesMap["meta"].id = 0

\* The last invocation went past the remove-before-discover test
Reached(i) == i.node # Null /\ ~(i.source = "ChildListRemove" /\ ~i.had)

\* The last invocation was a text child of a STYLE element handed on as the STYLE
Rerouted(i) ==
    /\ i.node \in TextNodes
    /\ i.source # "Discover"
    /\ i.env.attached
    /\ layoutTag(layoutParent(i.node)) = "STYLE"

\* The node the last invocation classified
Target(i) == IF Rerouted(i) THEN layoutParent(i.node) ELSE i.node

\* What the rule list of a sheet serialises to when it can be read
RuleText(sheet) == IF sheet \in { "none", "SecurityError" } THEN "" ELSE sheet

\* The style reads its rule list instead of its static text
RuleListPreferred(env) ==
    Trim(env.textContent) = "" \/ env.dataset > 0 \/ env.styleId # ""

\* C11: the value written for a STYLE element is the text of its live rule
\* list (empty when the list is missing or unreadable) whenever the trimmed
\* static text is empty, or the element has a data-* attribute, or its id is
\* not empty; in all other cases it is exactly the trimmed static text.
C11_StyleValue ==
    (Reached(inv) /\ Target(inv) = "style" /\ ~raised) =>
        /\ Cardinality(Writes(calls)) = 1
        /\ \A i \in Writes(calls) :
              /\ calls[i].node = "style"
              /\ calls[i].arg.value =
                    IF RuleListPreferred(inv.env) THEN RuleText(inv.env.sheet)
                    ELSE Trim(inv.env.textContent)

\* <style id="theme"> a{} </style> whose live rule list reads b{}
C11_Witness ==
    /\ inv.node = "style" /\ inv.source = "Discover"
    /\ inv.env.styleId = "theme" /\ inv.env.dataset = 0
    /\ inv.env.textContent = " a{} " /\ inv.env.sheet = "b{}"
    /\ Len(calls) = 1 /\ calls[1].fn = "add" /\ calls[1].arg.value = "b{}"

Media == { "video", "audio", "source" }

\* C12: the record written for a VIDEO, AUDIO or SOURCE element carries an
\* empty src when the element's src starts with "data:"; any other src, and
\* every other attribute that attribute extraction yields, is written as
\* extracted.
C12_MediaSrc ==
    (Reached(inv) /\ inv.node \in Media) =>
        /\ Cardinality(Writes(calls)) = 1
        /\ \A i \in Writes(calls) :
              LET src == inv.env.attributes["src"]
                  extracted == getAttributes(inv.env, layoutTag(inv.node))
              IN /\ calls[i].node = inv.node
                 /\ calls[i].arg.tag = layoutTag(inv.node)
                 /\ calls[i].arg.attributes["src"] =
                       IF src \in { "data:video/mp4;base64,AAAA" } THEN "" ELSE src
                 /\ \A a \in AttrNames \ { "src" } :
                       calls[i].arg.attributes[a] = extracted[a]

\* <source src="data:video/mp4;base64,AAAA"> inside a tracked <video>
C12_Witness ==
    /\ inv.node = "source" /\ inv.source = "ChildListAdd"
    /\ inv.env.attributes["src"] = "data:video/mp4;base64,AAAA"
    /\ nodesMap["video"].id # 0
    /\ Len(calls) = 1 /\ calls[1].fn = "add"
    /\ calls[1].arg.attributes["src"] = "" /\ calls[1].arg.parent = "video"

\* C13: every record an invocation writes is written for the (possibly
\* STYLE-rerouted) node, as an add if and only if that node was not tracked
\* when the classifier was called and as an update otherwise.
C13_AddOrUpdate ==
    [][ Reached(inv') =>
          \A i \in Writes(calls') :
              /\ calls'[i].node = Target(inv')
              /\ calls'[i].fn = "add" <=> nodesMap[Target(inv')].id = 0
              /\ calls'[i].fn = "update" <=> nodesMap[Target(inv')].id # 0
      ]_vars

\* text is added to a tracked <style>: the STYLE is updated
C13_Witness ==
    /\ inv.node = "styleText" /\ inv.source = "ChildListAdd" /\ ~inv.had
    /\ Len(calls) = 1 /\ calls[1].fn = "update" /\ calls[1].node = "style"
    /\ nodesMap["style"].id # 0 /\ nodesMap["styleText"].id = 0

\* The text records the last invocation wrote for node n
TextWrites(log, n) ==
    { i \in Writes(log) : log[i].node = n /\ log[i].arg.tag = TextTag }

\* C14: a text-tagged record is written for a text node only when its parent
\* is tracked and is neither STYLE nor NOSCRIPT, or when the notification is
\* a removal of a tracked text node; a text child of a STYLE element never
\* gets a text record.
C14_TextEmission ==
    \A n \in TextNodes :
        (inv.node = n /\ TextWrites(calls, n) # { }) =>
            LET parent == IF inv.env.attached THEN layoutParent(n) ELSE Null
            IN /\ \/ /\ parent # Null
                     /\ nodesMap[parent].id # 0
                     /\ layoutTag(parent) \notin { "STYLE", "NOSCRIPT" }
                  \/ inv.source = "ChildListRemove" /\ inv.had
               /\ n # "styleText"

\* The last invocation read the rule list of a stylesheet
Consulted(i) ==
    /\ Reached(i)
    /\ \/ Target(i) = "style" /\ RuleListPreferred(i.env)
       \/ /\ i.node = "link"
          /\ i.env.electron
          /\ i.env.attributes["rel"] = "stylesheet"
          /\ i.env.sheetOwned

\* C17: when reading the rule list raises a SecurityError, one warning is
\* logged, nothing is raised and the value written is the empty string;
\* when it raises another error, one warning is logged, the error leaves the
\* classifier, no add or update is issued for the STYLE or LINK node and the
\* registry is unchanged; no other error leaves the classifier.
C17_RuleListErrors ==
    /\ []((Consulted(inv) /\ inv.env.sheet = "SecurityError") =>
            /\ CallCount(calls, "internal.log", Null) = 1
            /\ \A i \in 1..Len(calls) :
                  calls[i].fn = "internal.log" => calls[i].arg = "SecurityError"
            /\ ~raised
            /\ Cardinality(Writes(calls)) = 1
            /\ \A i \in Writes(calls) : calls[i].arg.value = "")
    /\ []((Consulted(inv) /\ inv.env.sheet = "TypeError") =>
            /\ CallCount(calls, "internal.log", Null) = 1
            /\ \A i \in 1..Len(calls) :
                  calls[i].fn = "internal.log" => calls[i].arg = "TypeError"
            /\ raised
            /\ Writes(calls) = { }
            /\ child = Null)
    /\ [](raised => (Consulted(inv) /\ inv.env.sheet = "TypeError"))
    /\ [][ (Consulted(inv') /\ inv'.env.sheet = "TypeError") =>
              UNCHANGED << nodesMap, domIndex >> ]_vars

\* a tracked <link rel="stylesheet"> under electron whose sheet cannot be
\* read for a reason other than a SecurityError
C17_Witness ==
    /\ inv.node = "link" /\ inv.had /\ inv.source = "Attributes"
    /\ inv.env.electron /\ inv.env.sheetOwned /\ inv.env.sheet = "TypeError"
    /\ raised /\ Len(calls) = 1 /\ calls[1].fn = "internal.log"
    /\ nodesMap["link"].tag = "LINK"

\* C18: classifying a SCRIPT element, for any source and registry state,
\* writes no record, returns no follow-up node and raises nothing; the text
\* is parsed only when the type is the linked-data type, and a failed parse
\* makes no schema call.
C18_ScriptNeverMirrored ==
    inv.node = "script" =>
        LET type == inv.env.attributes["type"]
        IN /\ Writes(calls) = { }
           /\ nodesMap["script"].id = 0
           /\ child = Null
           /\ ~raised
           /\ type # JsonLD =>
                 /\ CallCount(calls, "JSON.parse", "script") = 0
                 /\ CallCount(calls, "schema.ld", "script") = 0
           /\ (type = JsonLD /\ ~inv.env.jsonOk) =>
                 CallCount(calls, "schema.ld", "script") = 0
           /\ (type = JsonLD /\ inv.env.jsonOk /\ Reached(inv)) =>
                 CallCount(calls, "schema.ld", "script") = 1

\* <script type="application/ld+json"> whose text is not valid JSON
C18_Witness ==
    /\ inv.node = "script" /\ inv.source = "Attributes"
    /\ inv.env.attributes["type"] = JsonLD /\ ~inv.env.jsonOk
    /\ Len(calls) = 1 /\ calls[1].fn = "JSON.parse"
    /\ ~raised /\ child = Null

\* The calls of the last invocation that begin observation of root r
ObserveCalls(log, r) ==
    { i \in 1..Len(log) :
        log[i].node = r /\ log[i].fn \in { "mutation.observe", "interaction.observe" } }

\* C19: a fragment without a host is never written, tracked or observed; a
\* native shadow root is written with the shadow tag and its host as parent,
\* is observed once it is tracked, and the calls that begin its observation
\* come before the write; a polyfilled shadow root is written with the
\* polyfill tag and its host as parent and is never observed.
C19_ShadowRoots ==
    /\ \A f \in Fragments :
          host(f) = Null =>
              /\ nodesMap[f].id = 0
              /\ f \notin observers \cup bindings
              /\ inv.node = f => calls = << >>
    /\ \A f \in Fragments :
          (host(f) # Null /\ nativeShadow(f)) =>
              /\ nodesMap[f].id # 0 => f \in observers
              /\ (Reached(inv) /\ inv.node = f) =>
                    /\ Cardinality(Writes(calls)) = 1
                    /\ f \in observers
                    /\ \A w \in Writes(calls) :
                          /\ calls[w].node = f
                          /\ calls[w].arg.tag = ShadowDomTag
                          /\ calls[w].arg.parent = host(f)
                          /\ \A o \in ObserveCalls(calls, f) : o < w
    /\ \A f \in Fragments :
          (host(f) # Null /\ ~nativeShadow(f)) =>
              /\ f \notin observers \cup bindings
              /\ (Reached(inv) /\ inv.node = f) =>
                    /\ ObserveCalls(calls, f) = { }
                    /\ Cardinality(Writes(calls)) = 1
                    /\ \A w \in Writes(calls) :
                          /\ calls[w].node = f
                          /\ calls[w].arg.tag = PolyfillShadowDomTag
                          /\ calls[w].arg.parent = host(f)

\* the open shadow root of the <div> is traversed after its host: it is
\* observed and then added below the host
C19_Witness ==
    /\ inv.node = "shadow" /\ ~inv.had /\ nodesMap["div"].id # 0
    /\ \E o, w \in 1..Len(calls) :
          /\ o < w
          /\ calls[o].fn = "mutation.observe" /\ calls[o].node = "shadow"
          /\ calls[w].fn = "add" /\ calls[w].arg.parent = "div"
          /\ calls[w].arg.tag = ShadowDomTag
    /\ "shadow" \in observers

\* C20: a BASE element never gets a record, and once the HEAD is tracked
\* and its child BASE has been classified, in whatever order, the base
\* attribute of the HEAD record is the URL resolved from the BASE href.
C20_BasePatchesHead ==
    /\ nodesMap["base"].id = 0
    /\ (nodesMap["head"].id # 0 /\ baseSeen # Null) =>
          nodesMap["head"].base = ResolvedHref(baseSeen)

(***************************************************************************)
(* Further properties of the snapshot traversal                            *)
(***************************************************************************)
\* Distance of a node from the document
RECURSIVE Depth(_)
Depth(n) == IF n = document \/ parentNode(n) = Null THEN 0 ELSE 1 + Depth(parentNode(n))

\* C15: the records of a snapshot are in breadth-first order; a record
\* without a parent id is a child of the document, a parent id is the id of
\* the record of the DOM parent, which comes earlier in the snapshot, and a
\* previous-sibling id is the id of an earlier record of the snapshot.
C15_ParentLinks ==
    \A i \in 1..Len(values) :
        /\ \A j \in 1..(i - 1) : Depth(values[j].node) <= Depth(values[i].node)
        /\ values[i].parent = 0 => parentNode(values[i].node) = document
        /\ values[i].parent # 0 =>
              \E j \in 1..(i - 1) :
                  /\ values[j].node = parentNode(values[i].node)
                  /\ values[j].id = values[i].parent
        /\ values[i].previous # 0 =>
              \E j \in 1..(i - 1) : values[j].id = values[i].previous

\* C16 as stated: identifiers that exist before snapshot() is called are not
\* carried into the records of the new snapshot.
C16_SnapshotResets ==
    [][ (last'.op = "snapshot" /\ ~last'.threw) =>
          \A i \in 1..Len(values') :
              \/ idMap[values'[i].node] = 0
              \/ values'[i].id # idMap[values'[i].node]
      ]_vars

\* C16 amended: snapshot() empties the record list only; every identifier
\* that exists before the call is kept and is the id of the node's record in
\* the new snapshot, and a node without an identifier gets a fresh one.
C16_SnapshotKeepsIds ==
    [][ (last'.op = "snapshot" /\ ~last'.threw) =>
          /\ \A n \in Nodes : idMap[n] # 0 => idMap'[n] = idMap[n]
          /\ \A i \in 1..Len(values') :
                LET n == values'[i].node
                IN /\ idMap[n] # 0 => values'[i].id = idMap[n]
                   /\ idMap[n] = 0 => (values'[i].id >= index /\ values'[i].id < index')
      ]_vars

\* start() gave the root element id 1 and metadata(document) took id 2: the
\* snapshot reports the root as 1 and the doctype, seen first, as 3
C16_Witness ==
    /\ last.op = "snapshot" /\ ~last.threw
    /\ idMap["document"] = 2
    /\ \E i, j \in 1..Len(values) :
          /\ values[i].node = "doctype" /\ values[i].id = 3
          /\ values[j].node = "html" /\ values[j].id = 1

\* While a session is running the root element is registered, with an
\* identifier smaller than that of every other registered node
RootSmallest ==
    active =>
        /\ idMap[documentElement] # 0
        /\ \A n \in Nodes \ { documentElement } :
              idMap[n] # 0 => idMap[documentElement] < idMap[n]

\* C21: the root element holds identifier 1 after start(), and at every
\* point of a session the root element's identifier is strictly smaller
\* than the identifier of every other node of the registry.
C21_RootPreallocated ==
    /\ (last.op = "start" /\ ~last.threw) => idMap[documentElement] = 1
    /\ RootSmallest

\* C22: a classifier invocation with source ChildListRemove, for any node
\* and registry state, returns no follow-up node and starts no mutation
\* monitoring or observation.
C22_RemovalNoFollowUp ==
    (inv.node # Null /\ inv.source = "ChildListRemove") =>
        /\ child = Null
        /\ \A i \in 1..Len(calls) :
              calls[i].fn \notin { "mutation.monitor", "mutation.observe",
                                   "interaction.observe" }

====
